---- MODULE Spec2Model ----
(***************************************************************************)
(* A model of pure-effect (src/index.js): the three effect constructors,   *)
(* chain, effectPipe and the interpreter runEffect.                        *)
(*                                                                         *)
(* JavaScript closures are defunctionalised: a function value is a record  *)
(* whose field k names the piece of code it closes over.                   *)
(*   [k |-> "step",  id |-> i]   the i-th step function of the pipeline    *)
(*   [k |-> "cont",  id |-> i]   the `next` of the Command step i returns  *)
(*   [k |-> "cont2", id |-> i]   the `next` of the Command that "cont" of  *)
(*                               a "cmdCmd" step returns                   *)
(*   [k |-> "chainNext", next |-> n, fn |-> f]                             *)
(*                               the closure built at src/index.js:12      *)
(*   [k |-> "compose", f |-> f, g |-> g]                                   *)
(*                               the caller's  x => chain(f(x), g)         *)
(* A call returns a record [val, log]: val is the effect returned, or the  *)
(* pseudo effect [type |-> "Throw", error |-> e] when the call threw e;    *)
(* log is the sequence of user functions the call invoked (a spy).         *)
(***************************************************************************)
EXTENDS Integers, Sequences, FiniteSets, TLC

VARIABLES
    steps,      \* the step functions handed to effectPipe: a sequence of behaviours
    start,      \* start[r]: the start value of run r's pipeline call
    world,      \* world[op]: the outcomes operation op can still produce
    heap,       \* heap[a]: the effect object at address a (the object-level view)
    users,      \* users[m]: the record db.users holds for email m, Null for none
    effect,     \* effect[r]: the effect the caller holds, then runEffect's `effect`
    pc,         \* pc[r]: where run r is
    settled,    \* settled[r]: what the awaited value of run r settled to
    result,     \* result[r]: what runEffect's promise resolved to
    trace,      \* trace[r]: every user function and operation invoked, in order
    inflight,   \* inflight[r]: operations invoked and not yet settled
    iters,      \* iters[r]: iterations of runEffect's while loop entered
    hist        \* hist[r]: the values runEffect's `effect` has held, the argument first

vars == <<steps, start, world, users, heap, effect, pc, settled, result, trace, inflight, iters, hist>>

(* Bounds. *)
MaxSteps == 3

Runs == {1, 2}
StartValues == {0, 1}
OpResults == {0, 1}
Behaviours == {"succ", "fail", "throw", "cmd", "cmdFail", "cmdThrow", "cmdCmd"}

StepIds == 1 .. MaxSteps
OpOf(i) == 2 * i - 1
Op2Of(i) == 2 * i
OpIds == 1 .. (2 * MaxSteps)
StepOfOp(op) == (op + 1) \div 2

(* What the user's functions compute; errors are numbered by their origin. *)
StepVal(i, x) == 10 * x + i
ContVal(i, r) == 10 * r + i + 5
Cont2Val(i, r) == 10 * r + i
DomainErr(i) == 100 + i
StepErr(i) == 200 + i
OpThrowErr(op) == 300 + op
OpRejectErr(op) == 400 + op
ContErr(i) == 500 + i

(* The registration example (src/unnamed/part_000:8-60). An input is a number
   that holds its email and two flags: the email has no '@', the password is
   shorter than 8. Each call of registerUserFlow makes its own four step
   functions: those of run r are steps 4(r-1)+1 .. 4r, and the closures of
   steps "find" and "save" read the input of their run. *)
Emails == {1, 2}
Null == 0
TrueVal == 1
InvalidEmail == 601
PasswordTooShort == 602
EmailInUse == 603
RegSteps == <<"validate", "find", "ensure", "save">>
RegInputs == {4 * m + f : m \in Emails, f \in 0 .. 3}
EmailOf(x) == x \div 4
NoAtSign(x) == x % 2 = 1
ShortPassword(x) == (x \div 2) % 2 = 1
SavedRecord(x) == 700 + x
RunOfStep(i) == ((i - 1) \div Len(RegSteps)) + 1
InputOf(op) == start[RunOfStep(StepOfOp(op))]
IsDbOp(op, b) == op % 2 = 1 /\ StepOfOp(op) \in DOMAIN steps /\ steps[StepOfOp(op)] = b
FindOp(r) == OpOf(Len(RegSteps) * (r - 1) + 2)
SaveOp(r) == OpOf(Len(RegSteps) * (r - 1) + 4)

(* src/index.js:1-3 *)
Success(value) == [type |-> "Success", value |-> value]
Failure(error) == [type |-> "Failure", error |-> error]
Command(cmd, next) == [type |-> "Command", cmd |-> cmd, next |-> next]

(* The completion of a call that threw. *)
Thrown(error) == [type |-> "Throw", error |-> error]
NoEffect == [type |-> "None"]
NoSettle == [ok |-> FALSE, val |-> -1]

Ev(ev, id, arg, ret) == [ev |-> ev, id |-> id, arg |-> arg, ret |-> ret]

(* Mutant of StepFn: ensureEmailIsAvailable lets every email through. *)
StepFnUnchecked(i, x) ==
    LET b == steps[i] IN
    CASE b = "succ" -> Success(StepVal(i, x))
      [] b = "validate" ->
            IF NoAtSign(x) THEN Failure(InvalidEmail)
            ELSE IF ShortPassword(x) THEN Failure(PasswordTooShort)
            ELSE Success(x)
      [] b = "ensure" -> Success(TrueVal)
      [] b = "fail" -> Failure(DomainErr(i))
      [] b = "throw" -> Thrown(StepErr(i))
      [] OTHER -> Command(OpOf(i), [k |-> "cont", id |-> i])

(* The step functions: what a caller hands to effectPipe. *)
StepFn(i, x) ==
    LET b == steps[i] IN
    CASE b = "succ" -> Success(StepVal(i, x))
      [] b = "validate" ->
            IF NoAtSign(x) THEN Failure(InvalidEmail)
            ELSE IF ShortPassword(x) THEN Failure(PasswordTooShort)
            ELSE Success(x)
      [] b = "ensure" -> IF x # Null THEN Failure(EmailInUse) ELSE Success(TrueVal)
      [] b = "fail" -> Failure(DomainErr(i))
      [] b = "throw" -> Thrown(StepErr(i))
      [] OTHER -> Command(OpOf(i), [k |-> "cont", id |-> i])

(* The continuation of the Command that step i returns. *)
ContFn(i, r) ==
    LET b == steps[i] IN
    CASE b = "cmd" -> Success(ContVal(i, r))
      [] b \in {"find", "save"} -> Success(r)
      [] b = "cmdFail" -> Failure(DomainErr(i))
      [] b = "cmdThrow" -> Thrown(ContErr(i))
      [] OTHER -> Command(Op2Of(i), [k |-> "cont2", id |-> i])

(* The continuation of the Command that a continuation returns. *)
Cont2Fn(i, r) == Success(Cont2Val(i, r))

RECURSIVE chain(_, _), Apply(_, _), reduce(_, _)

(* The value of a call is bound once, as the one element of a set, and the
   calls that follow read it: a call made first, then a call made on its
   result, give the second call's value and both calls' logs. *)
Only(S) == CHOOSE x \in S : TRUE
Then(a, b) == [val |-> b.val, log |-> a.log \o b.log]

(* Mutant of ChainNext: the closure does not chain again; fn is applied only
   when the original continuation returns a Success, and what fn returns, or a
   Command the continuation returns, is handed back as it is. *)
ChainNextShallow(c, res) ==
    Only({IF a.val.type = "Success"
          THEN Only({Then(a, b) : b \in {Apply(c.fn, a.val.value)}})
          ELSE a : a \in {Apply(c.next, res)}})

(* Mutant of ChainNext: the closure hands the operation's result to fn and
   leaves the original continuation out. *)
ChainNextSkip(c, res) == Apply(c.fn, res)

(* src/index.js:12, the closure `next`: (result) => chain(effect.next(result), fn) *)
ChainNext(c, res) ==
    Only({IF a.val.type = "Throw" THEN a
          ELSE Only({Then(a, b) : b \in {chain(a.val, c.fn)}}) : a \in {Apply(c.next, res)}})

(* A caller's  x => chain(f(x), g). *)
Compose(c, x) ==
    Only({IF a.val.type = "Throw" THEN a
          ELSE Only({Then(a, b) : b \in {chain(a.val, c.g)}}) : a \in {Apply(c.f, x)}})

(* A call fn(x) of a function value. *)
Apply(fn, x) ==
    CASE fn.k = "step" ->
            LET e == StepFn(fn.id, x) IN [val |-> e, log |-> <<Ev("step", fn.id, x, e)>>]
      [] fn.k = "cont" ->
            LET e == ContFn(fn.id, x) IN [val |-> e, log |-> <<Ev("cont", fn.id, x, e)>>]
      [] fn.k = "cont2" ->
            LET e == Cont2Fn(fn.id, x) IN [val |-> e, log |-> <<Ev("cont2", fn.id, x, e)>>]
      [] fn.k = "chainNext" -> ChainNext(fn, x)
      [] fn.k = "compose" -> Compose(fn, x)

(* Mutant of chain: a Failure does not short-circuit; fn is applied to the error. *)
chainNoShort(eff, fn) ==
    CASE eff.type = "Success" -> Apply(fn, eff.value)
      [] eff.type = "Failure" -> Apply(fn, eff.error)
      [] eff.type = "Command" ->
            [val |-> Command(eff.cmd, [k |-> "chainNext", next |-> eff.next, fn |-> fn]),
             log |-> <<>>]

(* Mutant of chain: chaining a Command invokes its operation on the spot. *)
chainEager(eff, fn) ==
    CASE eff.type = "Success" -> Apply(fn, eff.value)
      [] eff.type = "Failure" -> [val |-> eff, log |-> <<>>]
      [] eff.type = "Command" ->
            [val |-> Command(eff.cmd, [k |-> "chainNext", next |-> eff.next, fn |-> fn]),
             log |-> <<Ev("op", eff.cmd, 0, NoEffect)>>]

(* Mutant of chain: fn is called without the value of the Success. *)
chainDropValue(eff, fn) ==
    CASE eff.type = "Success" -> Apply(fn, 0)
      [] eff.type = "Failure" -> [val |-> eff, log |-> <<>>]
      [] eff.type = "Command" ->
            [val |-> Command(eff.cmd, [k |-> "chainNext", next |-> eff.next, fn |-> fn]),
             log |-> <<>>]

(* Mutant of chain: chaining a Command calls fn on the spot, with no value. *)
chainCallsFn(eff, fn) ==
    CASE eff.type = "Success" -> Apply(fn, eff.value)
      [] eff.type = "Failure" -> [val |-> eff, log |-> <<>>]
      [] eff.type = "Command" ->
            [val |-> Command(eff.cmd, [k |-> "chainNext", next |-> eff.next, fn |-> fn]),
             log |-> Apply(fn, 0).log]

(* src/index.js:5-15 *)
chain(eff, fn) ==
    CASE eff.type = "Success" -> Apply(fn, eff.value)
      [] eff.type = "Failure" -> [val |-> eff, log |-> <<>>]
      [] eff.type = "Command" ->
            [val |-> Command(eff.cmd, [k |-> "chainNext", next |-> eff.next, fn |-> fn]),
             log |-> <<>>]

(* Array.prototype.reduce with chain as the reducer; a throw leaves the fold. *)
reduce(fns, acc) ==
    IF fns = <<>> \/ acc.val.type = "Throw" THEN acc
    ELSE Only({reduce(Tail(fns), Then(acc, c)) : c \in {chain(acc.val, Head(fns))}})

(* Mutant of effectPipe: the fold runs from the last step (reduceRight). *)
effectPipeRight(fns, s) ==
    reduce([i \in 1 .. Len(fns) |-> fns[Len(fns) + 1 - i]], [val |-> Success(s), log |-> <<>>])

(* src/index.js:17-19 *)
effectPipe(fns, s) == reduce(fns, [val |-> Success(s), log |-> <<>>])

StepFns == [i \in 1 .. Len(steps) |-> [k |-> "step", id |-> i]]

(* What an operation may do when invoked. *)
AllOutcomes(op) ==
    {[mode |-> "throw", val |-> OpThrowErr(op)], [mode |-> "reject", val |-> OpRejectErr(op)]}
    \cup {[mode |-> m, val |-> v] : m \in {"return", "resolve"}, v \in OpResults}

(* An operation invoked again produces the same value or the same fault;
   whether a value comes back synchronously or through a promise is left open. *)
Same(op, o) ==
    IF o.mode \in {"throw", "reject"} THEN {o}
    ELSE {o2 \in world[op] : o2.mode \in {"return", "resolve"} /\ o2.val = o.val}

(* The in-memory db (src/unnamed/part_000:8-18). Both functions are async
   with no await inside: the body runs when the operation is invoked, and the
   promise it returns is already resolved. findUserByEmail resolves to the
   record stored for the email or to null; saveUser stores a record and
   resolves to it. Any other operation may do whatever `world` holds. *)
Outcomes(op) ==
    IF IsDbOp(op, "find")
    THEN {o \in world[op] : o.mode = "resolve" /\ o.val = users[EmailOf(InputOf(op))]}
    ELSE IF IsDbOp(op, "save")
    THEN {o \in world[op] : o.mode = "resolve" /\ o.val = SavedRecord(InputOf(op))}
    ELSE world[op]

Stored(op, o) ==
    IF IsDbOp(op, "save") THEN [users EXCEPT ![EmailOf(InputOf(op))] = o.val] ELSE users

SeqsUpTo(S, n) == UNION {[1 .. k -> S] : k \in 0 .. n}

Init ==
    /\ steps \in SeqsUpTo(Behaviours, MaxSteps)
    /\ start \in [Runs -> StartValues]
    /\ start[2] = 0
    /\ world = [op \in OpIds |-> AllOutcomes(op)]
    /\ users = [m \in Emails |-> Null]
    /\ effect = [r \in Runs |-> NoEffect]
    /\ pc = [r \in Runs |-> IF r = 1 THEN "init" ELSE "unused"]
    /\ settled = [r \in Runs |-> NoSettle]
    /\ result = [r \in Runs |-> NoEffect]
    /\ trace = [r \in Runs |-> <<>>]
    /\ inflight = [r \in Runs |-> {}]
    /\ iters = [r \in Runs |-> 0]
    /\ hist = [r \in Runs |-> <<>>]
    /\ heap = <<>>

(* The caller evaluates effectPipe(...steps)(start). *)
PipeCall(r) ==
    /\ pc[r] = "init"
    /\ LET p == effectPipe(StepFns, start[r]) IN
       /\ trace' = [trace EXCEPT ![r] = @ \o p.log]
       /\ IF p.val.type = "Throw"
          THEN /\ pc' = [pc EXCEPT ![r] = "threw"]
               /\ result' = [result EXCEPT ![r] = p.val]
               /\ UNCHANGED effect
          ELSE /\ pc' = [pc EXCEPT ![r] = "built"]
               /\ effect' = [effect EXCEPT ![r] = p.val]
               /\ UNCHANGED result
    /\ UNCHANGED <<heap, steps, start, world, users, settled, inflight, iters, hist>>

(* The caller applies the continuation of the Command it holds, without
   running it: the test's  step1.next(null)  (src/unnamed/part_000:75). A
   caller either walks the tree it built or hands it to runEffect, as the two
   tests do. *)
Walk(r) ==
    /\ pc[r] \in {"built", "walk"}
    /\ effect[r].type = "Command"
    /\ \E v \in OpResults :
        LET a == Apply(effect[r].next, v) IN
        /\ trace' = [trace EXCEPT ![r] = @ \o a.log]
        /\ IF a.val.type = "Throw"
           THEN /\ pc' = [pc EXCEPT ![r] = "threw"]
                /\ result' = [result EXCEPT ![r] = a.val]
                /\ UNCHANGED effect
           ELSE /\ pc' = [pc EXCEPT ![r] = "walk"]
                /\ effect' = [effect EXCEPT ![r] = a.val]
                /\ UNCHANGED result
    /\ UNCHANGED <<heap, steps, start, world, users, settled, inflight, iters, hist>>

(* src/index.js:29: the loop test fails and runEffect returns eff; log is what
   the call that produced eff invoked. *)
Return(r, eff, log) ==
    /\ trace' = [trace EXCEPT ![r] = @ \o log]
    /\ pc' = [pc EXCEPT ![r] = "done"]
    /\ result' = [result EXCEPT ![r] = eff]
    /\ settled' = [settled EXCEPT ![r] = NoSettle]
    /\ UNCHANGED <<iters, inflight, world, users>>

(* src/index.js:23-26: the loop body is entered and eff.cmd() is invoked. The
   operation throws synchronously (caught at line 25), returns a plain value,
   or returns a promise that is still pending; `await` suspends in the last
   two cases. *)
Invoke(r, eff, log) ==
    \E o \in Outcomes(eff.cmd) :
        /\ iters' = [iters EXCEPT ![r] = @ + 1]
        /\ world' = [world EXCEPT ![eff.cmd] = Same(eff.cmd, o)]
        /\ users' = Stored(eff.cmd, o)
        /\ CASE o.mode = "throw" ->
                   /\ trace' = [trace EXCEPT ![r] = @ \o log \o
                          <<Ev("op", eff.cmd, 0, NoEffect), Ev("fault", eff.cmd, o.val, NoEffect)>>]
                   /\ pc' = [pc EXCEPT ![r] = "done"]
                   /\ result' = [result EXCEPT ![r] = Failure(o.val)]
                   /\ settled' = [settled EXCEPT ![r] = NoSettle]
                   /\ UNCHANGED inflight
             [] o.mode = "return" ->
                   /\ trace' = [trace EXCEPT ![r] = @ \o log \o
                          <<Ev("op", eff.cmd, 0, NoEffect), Ev("value", eff.cmd, o.val, NoEffect)>>]
                   /\ pc' = [pc EXCEPT ![r] = "resume"]
                   /\ settled' = [settled EXCEPT ![r] = [ok |-> TRUE, val |-> o.val]]
                   /\ UNCHANGED <<result, inflight>>
             [] OTHER ->
                   /\ trace' = [trace EXCEPT ![r] = @ \o log \o
                          <<Ev("op", eff.cmd, 0, NoEffect)>>]
                   /\ pc' = [pc EXCEPT ![r] = "await"]
                   /\ inflight' = [inflight EXCEPT ![r] = @ \cup {eff.cmd}]
                   /\ settled' = [settled EXCEPT ![r] = NoSettle]
                   /\ UNCHANGED result

(* Mutant of Invoke: the `await` is missing, so a pending promise is handed to
   the continuation at once. *)
InvokeNoAwait(r, eff, log) ==
    \E o \in Outcomes(eff.cmd) :
        /\ iters' = [iters EXCEPT ![r] = @ + 1]
        /\ world' = [world EXCEPT ![eff.cmd] = Same(eff.cmd, o)]
        /\ users' = Stored(eff.cmd, o)
        /\ trace' = [trace EXCEPT ![r] = @ \o log \o <<Ev("op", eff.cmd, 0, NoEffect)>>]
        /\ pc' = [pc EXCEPT ![r] = "resume"]
        /\ inflight' = [inflight EXCEPT ![r] = @ \cup {eff.cmd}]
        /\ settled' = [settled EXCEPT ![r] = [ok |-> TRUE, val |-> 0]]
        /\ UNCHANGED result

(* Mutant of Loop: `if` in place of `while`, one iteration at most. *)
LoopOnce(r, eff, log) ==
    /\ effect' = [effect EXCEPT ![r] = eff]
    /\ hist' = [hist EXCEPT ![r] = Append(@, eff)]
    /\ IF eff.type = "Command" /\ iters[r] = 0
       THEN Invoke(r, eff, log)
       ELSE Return(r, eff, log)

(* Mutant of Loop: the operation's promise is not awaited. *)
LoopNoAwait(r, eff, log) ==
    /\ effect' = [effect EXCEPT ![r] = eff]
    /\ hist' = [hist EXCEPT ![r] = Append(@, eff)]
    /\ IF eff.type = "Command"
       THEN InvokeNoAwait(r, eff, log)
       ELSE Return(r, eff, log)

(* Mutant of Loop: `effect` is one variable that all invocations assign. *)
LoopShared(r, eff, log) ==
    /\ effect' = [q \in Runs |-> eff]
    /\ hist' = [hist EXCEPT ![r] = Append(@, eff)]
    /\ IF eff.type = "Command"
       THEN Invoke(r, eff, log)
       ELSE Return(r, eff, log)

(* src/index.js:22-29, from the loop test to the next suspension, with eff the
   value of `effect`. *)
Loop(r, eff, log) ==
    /\ effect' = [effect EXCEPT ![r] = eff]
    /\ hist' = [hist EXCEPT ![r] = Append(@, eff)]
    /\ IF eff.type = "Command"
       THEN Invoke(r, eff, log)
       ELSE Return(r, eff, log)

(* src/index.js:21: the caller calls runEffect(effect); the call runs
   synchronously up to the first await. *)
RunEffect(r) ==
    /\ pc[r] = "built"
    /\ Loop(r, effect[r], <<>>)
    /\ UNCHANGED <<heap, steps, start>>

(* The promise an operation returned settles: resolved with a value or
   rejected with an error. *)
Settle(r) ==
    /\ pc[r] = "await"
    /\ \E op \in inflight[r] : \E o \in world[op] :
        /\ o.mode \in {"resolve", "reject"}
        /\ settled' = [settled EXCEPT ![r] = [ok |-> o.mode = "resolve", val |-> o.val]]
        /\ inflight' = [inflight EXCEPT ![r] = @ \ {op}]
        /\ trace' = [trace EXCEPT ![r] =
                        Append(@, Ev(IF o.mode = "resolve" THEN "value" ELSE "fault", op, o.val, NoEffect))]
    /\ pc' = [pc EXCEPT ![r] = "resume"]
    /\ UNCHANGED <<heap, steps, start, effect, result, iters, hist, world, users>>

(* Mutant of Resume: a rejection is not caught; its error reaches the
   continuation as if it were the operation's result. *)
ResumeNoCatch(r) ==
    /\ pc[r] = "resume"
    /\ \E a \in {Apply(effect[r].next, settled[r].val)} :
       IF a.val.type = "Throw"
       THEN /\ pc' = [pc EXCEPT ![r] = "done"]
            /\ result' = [result EXCEPT ![r] = Failure(a.val.error)]
            /\ trace' = [trace EXCEPT ![r] = @ \o a.log]
            /\ settled' = [settled EXCEPT ![r] = NoSettle]
            /\ UNCHANGED <<effect, iters, inflight, world, users, hist>>
       ELSE Loop(r, a.val, a.log)
    /\ UNCHANGED <<heap, steps, start>>

(* Mutant of Resume: only the operation is inside the try block, so a throw of
   the continuation rejects runEffect's promise. *)
ResumeThrowEscapes(r) ==
    /\ pc[r] = "resume"
    /\ IF ~settled[r].ok
       THEN /\ pc' = [pc EXCEPT ![r] = "done"]
            /\ result' = [result EXCEPT ![r] = Failure(settled[r].val)]
            /\ settled' = [settled EXCEPT ![r] = NoSettle]
            /\ UNCHANGED <<effect, trace, iters, inflight, world, users, hist>>
       ELSE \E a \in {Apply(effect[r].next, settled[r].val)} :
            IF a.val.type = "Throw"
            THEN /\ pc' = [pc EXCEPT ![r] = "done"]
                 /\ result' = [result EXCEPT ![r] = a.val]
                 /\ trace' = [trace EXCEPT ![r] = @ \o a.log]
                 /\ settled' = [settled EXCEPT ![r] = NoSettle]
                 /\ UNCHANGED <<effect, iters, inflight, world, users, hist>>
            ELSE Loop(r, a.val, a.log)
    /\ UNCHANGED <<heap, steps, start>>

(* Mutant of Resume: a rejected operation is invoked again. *)
ResumeRetry(r) ==
    /\ pc[r] = "resume"
    /\ IF ~settled[r].ok
       THEN Loop(r, effect[r], <<>>)
       ELSE \E a \in {Apply(effect[r].next, settled[r].val)} :
            IF a.val.type = "Throw"
            THEN /\ pc' = [pc EXCEPT ![r] = "done"]
                 /\ result' = [result EXCEPT ![r] = Failure(a.val.error)]
                 /\ trace' = [trace EXCEPT ![r] = @ \o a.log]
                 /\ settled' = [settled EXCEPT ![r] = NoSettle]
                 /\ UNCHANGED <<effect, iters, inflight, world, users, hist>>
            ELSE Loop(r, a.val, a.log)
    /\ UNCHANGED <<heap, steps, start>>

(* Mutant of Resume: the awaited value is dropped and the continuation is
   called with nothing. *)
ResumeStale(r) ==
    /\ pc[r] = "resume"
    /\ IF ~settled[r].ok
       THEN /\ pc' = [pc EXCEPT ![r] = "done"]
            /\ result' = [result EXCEPT ![r] = Failure(settled[r].val)]
            /\ settled' = [settled EXCEPT ![r] = NoSettle]
            /\ UNCHANGED <<effect, trace, iters, inflight, world, users, hist>>
       ELSE \E a \in {Apply(effect[r].next, 0)} :
            IF a.val.type = "Throw"
            THEN /\ pc' = [pc EXCEPT ![r] = "done"]
                 /\ result' = [result EXCEPT ![r] = Failure(a.val.error)]
                 /\ trace' = [trace EXCEPT ![r] = @ \o a.log]
                 /\ settled' = [settled EXCEPT ![r] = NoSettle]
                 /\ UNCHANGED <<effect, iters, inflight, world, users, hist>>
            ELSE Loop(r, a.val, a.log)
    /\ UNCHANGED <<heap, steps, start>>

(* Mutant of Resume: after the continuation returns, the invocation yields
   before it tests the new effect and invokes its operation. *)
ResumeYield(r) ==
    /\ pc[r] = "resume"
    /\ IF ~settled[r].ok
       THEN /\ pc' = [pc EXCEPT ![r] = "done"]
            /\ result' = [result EXCEPT ![r] = Failure(settled[r].val)]
            /\ settled' = [settled EXCEPT ![r] = NoSettle]
            /\ UNCHANGED <<effect, trace, iters, inflight, world, users, hist>>
       ELSE \E a \in {Apply(effect[r].next, settled[r].val)} :
            IF a.val.type = "Throw"
            THEN /\ pc' = [pc EXCEPT ![r] = "done"]
                 /\ result' = [result EXCEPT ![r] = Failure(a.val.error)]
                 /\ trace' = [trace EXCEPT ![r] = @ \o a.log]
                 /\ settled' = [settled EXCEPT ![r] = NoSettle]
                 /\ UNCHANGED <<effect, iters, inflight, world, users, hist>>
            ELSE /\ pc' = [pc EXCEPT ![r] = "built"]
                 /\ effect' = [effect EXCEPT ![r] = a.val]
                 /\ trace' = [trace EXCEPT ![r] = @ \o a.log]
                 /\ settled' = [settled EXCEPT ![r] = NoSettle]
                 /\ UNCHANGED <<result, iters, inflight, world, users, hist>>
    /\ UNCHANGED <<heap, steps, start>>

(* src/index.js:24-28: runEffect resumes after the await. A rejection is caught
   (line 25-26); otherwise the continuation is applied to the awaited value, a
   throw of the continuation is caught by the same handler, and the loop goes
   round. *)
Resume(r) ==
    /\ pc[r] = "resume"
    /\ IF ~settled[r].ok
       THEN /\ pc' = [pc EXCEPT ![r] = "done"]
            /\ result' = [result EXCEPT ![r] = Failure(settled[r].val)]
            /\ settled' = [settled EXCEPT ![r] = NoSettle]
            /\ UNCHANGED <<effect, trace, iters, inflight, world, users, hist>>
       ELSE \E a \in {Apply(effect[r].next, settled[r].val)} :
            IF a.val.type = "Throw"
            THEN /\ pc' = [pc EXCEPT ![r] = "done"]
                 /\ result' = [result EXCEPT ![r] = Failure(a.val.error)]
                 /\ trace' = [trace EXCEPT ![r] = @ \o a.log]
                 /\ settled' = [settled EXCEPT ![r] = NoSettle]
                 /\ UNCHANGED <<effect, iters, inflight, world, users, hist>>
            ELSE Loop(r, a.val, a.log)
    /\ UNCHANGED <<heap, steps, start>>

Next ==
    \E r \in Runs :
        PipeCall(r) \/ Walk(r) \/ RunEffect(r) \/ Settle(r) \/ Resume(r)

Spec == Init /\ [][Next]_vars

(* An operation that was invoked settles, and a settled await resumes (the
   microtask queue runs). *)
LiveSpec ==
    Spec /\ \A r \in Runs : WF_vars(Settle(r)) /\ WF_vars(Resume(r))

-----------------------------------------------------------------------------
(* The two groupings of chain. The pipeline's steps but the last two build the
   effect e; f and g are the last two steps. Run 1 is given
   chain(chain(e, f), g) and run 2 chain(e, x => chain(f(x), g)); both runs
   meet the same operations, whose outcomes `world` fixes at first use. *)
AssocLeft(e, f, g) ==
    Only({IF a.val.type = "Throw" THEN a
          ELSE Only({Then(a, b) : b \in {chain(a.val, g)}}) : a \in {chain(e, f)}})

AssocRight(e, f, g) == chain(e, [k |-> "compose", f |-> f, g |-> g])

InitAssoc ==
    /\ steps \in SeqsUpTo(Behaviours, MaxSteps)
    /\ Len(steps) >= 2
    /\ \A i \in 1 .. (Len(steps) - 2) : steps[i] # "throw"
    /\ start \in [Runs -> StartValues]
    /\ start[1] = start[2]
    /\ world = [op \in OpIds |-> AllOutcomes(op)]
    /\ users = [m \in Emails |-> Null]
    /\ effect = [r \in Runs |-> NoEffect]
    /\ pc = [r \in Runs |-> "init"]
    /\ settled = [r \in Runs |-> NoSettle]
    /\ result = [r \in Runs |-> NoEffect]
    /\ trace = [r \in Runs |-> <<>>]
    /\ inflight = [r \in Runs |-> {}]
    /\ iters = [r \in Runs |-> 0]
    /\ hist = [r \in Runs |-> <<>>]
    /\ heap = <<>>

AssocCall ==
    /\ \A r \in Runs : pc[r] = "init"
    /\ \E pre \in {effectPipe(SubSeq(StepFns, 1, Len(steps) - 2), start[1])} :
       \E l \in {AssocLeft(pre.val, StepFns[Len(steps) - 1], StepFns[Len(steps)])} :
       \E rt \in {AssocRight(pre.val, StepFns[Len(steps) - 1], StepFns[Len(steps)])} :
        LET got == [r \in Runs |-> IF r = 1 THEN l ELSE rt] IN
        /\ trace' = [r \in Runs |-> pre.log \o got[r].log]
        /\ pc' = [r \in Runs |-> IF got[r].val.type = "Throw" THEN "threw" ELSE "built"]
        /\ result' = [r \in Runs |-> IF got[r].val.type = "Throw" THEN got[r].val ELSE result[r]]
        /\ effect' = [r \in Runs |-> IF got[r].val.type = "Throw" THEN effect[r] ELSE got[r].val]
    /\ UNCHANGED <<heap, steps, start, world, users, settled, inflight, iters, hist>>

(* The caller drives the first grouping to its end, then the second:
   await runEffect(left), then await runEffect(right). *)
NextAssoc ==
    \/ AssocCall
    \/ RunEffect(1)
    \/ pc[1] = "done" /\ RunEffect(2)
    \/ \E r \in Runs : Settle(r) \/ Resume(r)

SpecAssoc == InitAssoc /\ [][NextAssoc]_vars

-----------------------------------------------------------------------------
(* Reading the trace. *)
IsFn(e) == e.ev \in {"step", "cont", "cont2"}
IsSettle(e) == e.ev \in {"fault", "value"}
LastEv(r) == trace[r][Len(trace[r])]
OpsBefore(r, j) == Cardinality({i \in 1 .. (j - 1) : trace[r][i].ev = "op"})
SettlesBefore(r, j) == Cardinality({i \in 1 .. (j - 1) : IsSettle(trace[r][i])})
(* The user function or operation ended the chain: a fault of an operation, a
   Failure returned, or a throw. *)
Ends(e) == e.ev = "fault" \/ (IsFn(e) /\ e.ret.type \in {"Failure", "Throw"})

(* C1: what runEffect resolves to is a Success or a Failure, never a Command;
   it is the first value of `effect` that is not a Command, returned as it is
   (or the Failure made from a fault when there is none); an argument that is
   already an Outcome is returned unchanged, no operation or continuation
   having been invoked. *)
C1_TerminalOutcome ==
    \A r \in Runs : pc[r] = "done" =>
        LET h == hist[r]
            t == trace[r]
            outs == {j \in 1 .. Len(h) : h[j].type # "Command"}
        IN  /\ result[r].type \in {"Success", "Failure"}
            /\ Len(h) >= 1
            /\ outs # {} => outs = {Len(h)} /\ result[r] = h[Len(h)]
            /\ outs = {} => Len(t) > 0 /\ Ends(LastEv(r)) /\ result[r].type = "Failure"
            /\ h[1].type # "Command" =>
                   /\ result[r] = h[1]
                   /\ iters[r] = 0
                   /\ \A j \in 1 .. Len(t) : t[j].ev = "step"

C1_Witness ==
    pc[1] = "done" /\ Len(hist[1]) >= 3 /\ result[1].type = "Success"

(* C2: once step k, or a continuation of step k, has returned Failure(e), no
   step after k and no operation of a step after k is in the trace, the effect
   the caller holds is Failure(e), and runEffect resolves to Failure(e). *)
C2_ShortCircuit ==
    \A r \in Runs : \A j \in 1 .. Len(trace[r]) :
        LET e == trace[r][j] IN
        (IsFn(e) /\ e.ret.type = "Failure") =>
            /\ \A i \in 1 .. Len(trace[r]) :
                   LET d == trace[r][i] IN
                   /\ IsFn(d) => d.id <= e.id
                   /\ d.ev = "op" => StepOfOp(d.id) <= e.id
            /\ pc[r] \in {"built", "walk", "done"}
            /\ pc[r] \in {"built", "walk"} => effect[r] = e.ret
            /\ pc[r] = "done" => result[r] = e.ret

C2_Witness ==
    /\ pc[1] = "done"
    /\ Len(trace[1]) > 0
    /\ LastEv(1).ev = "cont" /\ LastEv(1).ret.type = "Failure"
    /\ LastEv(1).id + 2 <= Len(steps)

(* C3: a fault of an operation (a synchronous throw or a rejection with E) is
   the last thing in the trace: the continuation of that Command is not
   applied and nothing is invoked afterwards; runEffect resolves to Failure(E)
   with E as the operation raised it. *)
C3_OperationFault ==
    \A r \in Runs : \A j \in 1 .. Len(trace[r]) :
        LET e == trace[r][j] IN
        e.ev = "fault" =>
            /\ j = Len(trace[r])
            /\ j > 1 /\ trace[r][j - 1] = Ev("op", e.id, 0, NoEffect)
            /\ e.arg \in {OpThrowErr(e.id), OpRejectErr(e.id)}
            /\ pc[r] \in {"resume", "done"}
            /\ pc[r] = "done" => result[r] = Failure(e.arg)

C3_Witness ==
    /\ pc[1] = "done"
    /\ iters[1] >= 2
    /\ LastEv(1).ev = "fault" /\ LastEv(1).arg = OpRejectErr(LastEv(1).id)

(* C4: when a continuation driven by runEffect throws E (the continuation
   itself or a later step that runs inside the chained continuation), the
   throw is the last thing in the trace and runEffect resolves to Failure(E). *)
C4_ContinuationFault ==
    \A r \in Runs : \A j \in 1 .. Len(trace[r]) :
        LET e == trace[r][j] IN
        (IsFn(e) /\ e.ret.type = "Throw" /\ iters[r] > 0) =>
            /\ j = Len(trace[r])
            /\ pc[r] = "done"
            /\ result[r] = Failure(e.ret.error)

C4_Witness ==
    /\ pc[1] = "done"
    /\ iters[1] >= 1
    /\ LastEv(1).ev = "step" /\ LastEv(1).ret = Thrown(StepErr(LastEv(1).id))
    /\ result[1] = Failure(StepErr(LastEv(1).id))

(* C5: as long as runEffect has not been called (the pipeline was built, its
   continuations were applied by hand), no operation has been invoked. *)
C5_DeferredPurity ==
    \A r \in Runs : pc[r] \in {"init", "built", "walk", "threw"} =>
        /\ iters[r] = 0
        /\ inflight[r] = {}
        /\ \A j \in 1 .. Len(trace[r]) : IsFn(trace[r][j])

C5_Witness ==
    /\ pc[1] = "walk"
    /\ effect[1].type = "Command"
    /\ \E j \in 1 .. Len(trace[1]) : trace[1][j].ev = "cont2"

(* C6: a run has at most one operation in flight, and every operation it
   invokes is invoked after all the operations it invoked before have settled. *)
C6_OneInFlight ==
    \A r \in Runs :
        /\ Cardinality(inflight[r]) <= 1
        /\ pc[r] # "await" => inflight[r] = {}
        /\ \A j \in 1 .. Len(trace[r]) :
               trace[r][j].ev = "op" => OpsBefore(r, j) = SettlesBefore(r, j)

C6_Witness ==
    pc[1] = "await" /\ iters[1] >= 2 /\ Cardinality(inflight[1]) = 1

(* C7: under LiveSpec a run that has invoked an operation ends; the loop
   iterations entered are as many as the operations invoked; nothing is
   invoked after the fault, Failure or throw that ended the chain. *)
C7_Termination ==
    /\ \A r \in Runs : (pc[r] \in {"await", "resume"}) ~> (pc[r] = "done")
    /\ [](\A r \in Runs :
            /\ iters[r] = OpsBefore(r, Len(trace[r]) + 1)
            /\ \A j \in 1 .. Len(trace[r]) : Ends(trace[r][j]) => j = Len(trace[r]))

C7_Witness ==
    /\ pc[1] = "done"
    /\ iters[1] = 2
    /\ result[1].type = "Failure"
    /\ Len(steps) = 3 /\ steps[3] \in {"cmd", "cmdCmd"}

IsPrefix(s, t) == Len(s) <= Len(t) /\ SubSeq(t, 1, Len(s)) = s

(* C8: chain(chain(e, f), g) and chain(e, x => chain(f(x), g)) behave alike.
   Both throw the same error or both return; they invoke the same functions
   with the same arguments; when they return an Outcome it is the same
   Outcome, and when they return a Command it has the same operation. Driven
   by runEffect one after the other with the same operation results, the
   second run's trace is at every moment a prefix of the first's, and when
   both have ended they have invoked the same operations in the same order
   and resolved to the same Outcome. *)
C8_ChainAssociative ==
    /\ (pc[1] = "threw") <=> (pc[2] = "threw")
    /\ (pc[1] = "init") <=> (pc[2] = "init")
    /\ pc[1] = "threw" => result[1] = result[2] /\ trace[1] = trace[2]
    /\ (pc[1] = "built" /\ pc[2] = "built") =>
           /\ trace[1] = trace[2]
           /\ effect[1].type = effect[2].type
           /\ effect[1].type # "Command" => effect[1] = effect[2]
           /\ effect[1].type = "Command" => effect[1].cmd = effect[2].cmd
    /\ pc[1] = "done" => IsPrefix(trace[2], trace[1])
    /\ (pc[1] = "done" /\ pc[2] = "done") =>
           /\ result[1] = result[2]
           /\ trace[1] = trace[2]
           /\ iters[1] = iters[2]

C8_Witness ==
    /\ pc[1] = "done" /\ pc[2] = "done"
    /\ hist[1][1].type = "Command" /\ hist[2][1].type = "Command"
    /\ hist[1][1] # hist[2][1]
    /\ iters[1] >= 3
    /\ result[1].type = "Success"

(* C9: the first step is called with the start value; step k+1 is called
   right after step k or a continuation of step k returned a Success, with the
   value of that Success. *)
C9_SuccessThreading ==
    \A r \in Runs : \A j \in 1 .. Len(trace[r]) :
        LET e == trace[r][j] IN
        e.ev = "step" =>
            IF e.id = 1
            THEN j = 1 /\ e.arg = start[r]
            ELSE /\ j > 1
                 /\ IsFn(trace[r][j - 1])
                 /\ trace[r][j - 1].id = e.id - 1
                 /\ trace[r][j - 1].ret = Success(e.arg)

C9_Witness ==
    /\ pc[1] = "done"
    /\ \E j \in 2 .. Len(trace[1]) :
        /\ trace[1][j].ev = "step" /\ trace[1][j].id = 3
        /\ trace[1][j - 1].ev = "cont2"
        /\ trace[1][j].arg = Cont2Val(2, 1)

(* C10: a run in which every operation produced a value and nothing returned
   a Failure or threw resolves to the Success that the last continuation
   applied returned, and every continuation was applied to the value its own
   operation produced. *)
C10_InterpreterSuccess ==
    \A r \in Runs :
        (/\ pc[r] = "done"
         /\ iters[r] >= 1
         /\ \A j \in 1 .. Len(trace[r]) : ~Ends(trace[r][j])) =>
            /\ result[r].type = "Success"
            /\ result[r] = LastEv(r).ret
            /\ result[r] = hist[r][Len(hist[r])]
            /\ \A j \in 1 .. Len(trace[r]) :
                   LET e == trace[r][j] IN
                   e.ev \in {"cont", "cont2"} =>
                       /\ j > 1
                       /\ trace[r][j - 1] =
                              Ev("value", IF e.ev = "cont" THEN OpOf(e.id) ELSE Op2Of(e.id), e.arg, NoEffect)

C10_Witness ==
    /\ pc[1] = "done"
    /\ Len(steps) = 2 /\ iters[1] = 2
    /\ result[1] = Success(ContVal(2, 1))

-----------------------------------------------------------------------------
(* Which function of step i hands its Success to step i + 1: the step itself,
   its continuation, or the continuation of its second Command. *)
LastFnOf(i) ==
    CASE steps[i] = "succ" -> "step"
      [] steps[i] = "cmd" -> "cont"
      [] steps[i] = "cmdCmd" -> "cont2"
      [] OTHER -> "none"

OrigCont(op) == IF op % 2 = 1 THEN "cont" ELSE "cont2"

(* C14: the operations a run invokes are invoked in step order, none of them
   twice; an operation that is not the first is invoked only after the one
   before it has produced a value and that value has been passed to the
   continuation its Command was built with; a fault, a Failure or a throw is
   the last thing the run does and makes its result a Failure. *)
C14_Ordering ==
    \A r \in Runs :
        LET t == trace[r]
            ops == {j \in 1 .. Len(t) : t[j].ev = "op"}
        IN  /\ \A i, j \in ops : i < j => t[i].id < t[j].id
            /\ \A i, j \in ops :
                   (i < j /\ \A m \in ops : ~(i < m /\ m < j)) =>
                       /\ i + 2 < j
                       /\ t[i + 1].ev = "value" /\ t[i + 1].id = t[i].id
                       /\ t[i + 2].ev = OrigCont(t[i].id)
                       /\ t[i + 2].id = StepOfOp(t[i].id)
                       /\ t[i + 2].arg = t[i + 1].arg
            /\ \A j \in 1 .. Len(t) :
                   Ends(t[j]) =>
                       /\ j = Len(t)
                       /\ pc[r] = "done" => result[r].type = "Failure"

C14_Witness ==
    /\ pc[1] = "done"
    /\ iters[1] = 3
    /\ result[1].type = "Success"

(* effectPipe written out as the nested calls
   chain(...chain(chain(Success(s), fns[1]), fns[2])..., fns[n]). *)
RECURSIVE NestedChain(_, _, _)
NestedChain(fns, n, s) ==
    IF n = 0 THEN [val |-> Success(s), log |-> <<>>]
    ELSE Only({IF a.val.type = "Throw" THEN a
               ELSE Only({Then(a, b) : b \in {chain(a.val, fns[n])}})
               : a \in {NestedChain(fns, n - 1, s)}})

OnlySteps(r) == \A j \in 1 .. Len(trace[r]) : trace[r][j].ev = "step"

(* C15: what effectPipe(s1, ..., sn)(start) returns (or throws), and the calls
   it makes, are those of chain(...chain(chain(Success(start), s1), s2)..., sn);
   with no steps it returns Success(start) and calls nothing. *)
C15_LeftFold ==
    \A r \in Runs :
        LET n == NestedChain(StepFns, Len(steps), start[r]) IN
        /\ pc[r] = "built" => effect[r] = n.val /\ trace[r] = n.log
        /\ (pc[r] = "threw" /\ OnlySteps(r)) => result[r] = n.val /\ trace[r] = n.log
        /\ (pc[r] = "built" /\ Len(steps) = 0) =>
               effect[r] = Success(start[r]) /\ trace[r] = <<>>

C15_Witness ==
    /\ pc[1] = "built"
    /\ Len(steps) = 3 /\ steps[1] = "succ" /\ steps[2] # "succ" /\ steps[3] # steps[2]
    /\ effect[1].type = "Command" /\ effect[1].next.k = "chainNext"

(* The first step that does not return a Success, the last step when all do. *)
FirstStop ==
    LET S == {i \in 1 .. Len(steps) : steps[i] # "succ"} IN
    IF S = {} THEN Len(steps) ELSE CHOOSE i \in S : \A k \in S : i <= k

(* C18: the call effectPipe(...)(start) invokes steps 1 .. k in order, k being
   the first step that returns a Command or a Failure (or throws), and no
   other; a later step is invoked right after the function of the step before
   it that hands on a Success, which for a Command-returning step is the
   continuation of its Command. *)
C18_EagerPrefix ==
    \A r \in Runs :
        LET t == trace[r] IN
        /\ (pc[r] = "built" \/ (pc[r] = "threw" /\ OnlySteps(r))) =>
               /\ Len(t) = FirstStop
               /\ \A j \in 1 .. Len(t) : t[j].ev = "step" /\ t[j].id = j
        /\ \A j \in 1 .. Len(t) :
               (t[j].ev = "step" /\ t[j].id > 1) =>
                   /\ j > 1
                   /\ t[j - 1].ev = LastFnOf(t[j].id - 1)
                   /\ t[j - 1].id = t[j].id - 1
                   /\ t[j - 1].ret.type = "Success"
        /\ \A j \in 1 .. Len(t) :
               (t[j].ev = "step" /\ t[j].id > FirstStop) =>
                   \E i \in 1 .. (j - 1) : t[i].ev = "cont" /\ t[i].id = FirstStop

C18_Witness ==
    /\ pc[1] = "done"
    /\ Len(steps) = 3 /\ steps[1] = "succ" /\ steps[2] = "cmd"
    /\ \E j \in 1 .. Len(trace[1]) : trace[1][j].ev = "step" /\ trace[1][j].id = 3


-----------------------------------------------------------------------------
(* The call stack. Frames(fn, x) is the deepest nesting of calls reached
   during the call fn(x), that call counted; chainFrames the same for
   chain(eff, fn). The closure of src/index.js:12 first calls effect.next
   (result), an argument of its call of chain, and then chain; neither call
   replaces the closure's frame. *)
Max(a, b) == IF a >= b THEN a ELSE b

RECURSIVE Frames(_, _), chainFrames(_, _)
Frames(fn, x) ==
    CASE fn.k \in {"step", "cont", "cont2"} -> 1
      [] fn.k = "chainNext" ->
            Only({1 + Max(Frames(fn.next, x),
                          IF a.val.type = "Throw" THEN 0 ELSE chainFrames(a.val, fn.fn))
                  : a \in {Apply(fn.next, x)}})
      [] fn.k = "compose" ->
            Only({1 + Max(Frames(fn.f, x),
                          IF a.val.type = "Throw" THEN 0 ELSE chainFrames(a.val, fn.g))
                  : a \in {Apply(fn.f, x)}})

chainFrames(eff, fn) == 1 + (IF eff.type = "Success" THEN Frames(fn, eff.value) ELSE 0)

(* The frames on the stack when runEffect applies the continuation of a
   Command that chain built from one Command and one step: runEffect, the
   closure, chain, the step. *)
FrameLimit == 4

(* The deepest stack run r reaches when it resumes: runEffect's frame and the
   call effect.next(result) of src/index.js:24. *)
ResumeFrames(r) == 1 + Frames(effect[r].next, settled[r].val)

(* C13: the stack depth runEffect reaches when it applies a continuation does
   not grow with the number of steps of the pipeline: it stays within the
   frames one chained continuation needs. *)
C13_NoStackGrowth ==
    \A r \in Runs :
        (pc[r] = "resume" /\ settled[r].ok) => ResumeFrames(r) <= FrameLimit

(* The depth is the number of steps plus two when every step returns a Command. *)
C13_DepthIsLinear ==
    \A r \in Runs :
        (/\ pc[r] = "resume" /\ settled[r].ok /\ iters[r] = 1
         /\ Len(steps) >= 2
         /\ \A i \in 1 .. Len(steps) : steps[i] \in {"cmd", "cmdFail", "cmdThrow", "cmdCmd"}
         /\ steps[1] = "cmd")
        => ResumeFrames(r) = Len(steps) + 2


-----------------------------------------------------------------------------
(* Two callers, each with its own pipeline call and its own runEffect
   invocation, running at once: at every step any invocation that can move
   may be the one that moves. *)
MaxConcSteps == 2

InitConc ==
    /\ steps \in SeqsUpTo(Behaviours, MaxConcSteps)
    /\ start \in [Runs -> StartValues]
    /\ world = [op \in OpIds |-> AllOutcomes(op)]
    /\ users = [m \in Emails |-> Null]
    /\ effect = [r \in Runs |-> NoEffect]
    /\ pc = [r \in Runs |-> "init"]
    /\ settled = [r \in Runs |-> NoSettle]
    /\ result = [r \in Runs |-> NoEffect]
    /\ trace = [r \in Runs |-> <<>>]
    /\ inflight = [r \in Runs |-> {}]
    /\ iters = [r \in Runs |-> 0]
    /\ hist = [r \in Runs |-> <<>>]
    /\ heap = <<>>

NextConc ==
    \E r \in Runs : PipeCall(r) \/ RunEffect(r) \/ Settle(r) \/ Resume(r)

SpecConc == InitConc /\ [][NextConc]_vars

(* runEffect(eff) with nothing else running: the loop of src/index.js:22-29
   taken from its first test to its return, every operation giving what
   `world` holds for it. *)
RECURSIVE Alone(_)
Alone(eff) ==
    IF eff.type # "Command" THEN [result |-> eff, trace |-> <<>>]
    ELSE LET o == CHOOSE x \in world[eff.cmd] : TRUE
             called == Ev("op", eff.cmd, 0, NoEffect)
         IN  IF o.mode \in {"throw", "reject"}
             THEN [result |-> Failure(o.val),
                   trace |-> <<called, Ev("fault", eff.cmd, o.val, NoEffect)>>]
             ELSE Only({
                    IF a.val.type = "Throw"
                    THEN [result |-> Failure(a.val.error),
                          trace |-> <<called, Ev("value", eff.cmd, o.val, NoEffect)>> \o a.log]
                    ELSE Only({[result |-> n.result,
                                trace |-> <<called, Ev("value", eff.cmd, o.val, NoEffect)>>
                                          \o a.log \o n.trace] : n \in {Alone(a.val)}})
                    : a \in {Apply(eff.next, o.val)}})

(* What belongs to invocation r. *)
Own(r) == <<effect[r], pc[r], settled[r], result[r], trace[r], inflight[r], iters[r], hist[r]>>

(* C16: a step of one invocation leaves everything that belongs to the other
   invocation as it was, and an invocation that has ended has the result and
   has invoked the operations, in the order, of the same runEffect call made
   with nothing else running. *)
C16_NoInterference ==
    /\ [][\A r, q \in Runs : (r # q /\ Own(r)' # Own(r)) => Own(q)' = Own(q)]_vars
    /\ [](\A r \in Runs : pc[r] = "done" =>
            \E p \in {effectPipe(StepFns, start[r])} :
            \E n \in {Alone(hist[r][1])} :
                /\ hist[r][1] = p.val
                /\ result[r] = n.result
                /\ trace[r] = p.log \o n.trace)

(* Invocation 1 has ended after two operations while invocation 2, begun
   with another start value, waits for its second. *)
C16_Witness ==
    /\ pc[1] = "done" /\ iters[1] = 2 /\ result[1].type = "Success"
    /\ pc[2] = "await" /\ iters[2] = 2
    /\ start[1] # start[2]

(* The first operation invocation r invoked. *)
FirstOp(r) ==
    LET S == {j \in 1 .. Len(trace[r]) : trace[r][j].ev = "op"} IN
    IF S = {} THEN Len(trace[r]) + 1 ELSE CHOOSE j \in S : \A k \in S : j <= k

(* C17: an invocation that has begun and not ended is waiting for the result
   of the operation of the Command it holds: the operation is in flight, or
   its result is the last thing in the trace; and there is no state in which
   a continuation has returned a Command whose operation is not yet invoked,
   so nothing runs between the two. *)
C17_SuspensionPoints ==
    \A r \in Runs :
        LET t == trace[r] IN
        /\ pc[r] \in {"await", "resume"} =>
               /\ effect[r].type = "Command"
               /\ pc[r] = "await" =>
                      /\ inflight[r] = {effect[r].cmd}
                      /\ LastEv(r) = Ev("op", effect[r].cmd, 0, NoEffect)
               /\ pc[r] = "resume" =>
                      /\ inflight[r] = {}
                      /\ IsSettle(LastEv(r)) /\ LastEv(r).id = effect[r].cmd
                      /\ settled[r] = [ok |-> LastEv(r).ev = "value", val |-> LastEv(r).arg]
        /\ iters[r] > 0 => pc[r] \in {"await", "resume", "done"}
        /\ \A j \in 1 .. Len(t) :
               (j > FirstOp(r) /\ IsFn(t[j]) /\ t[j].ret.type = "Command") =>
                   /\ j < Len(t)
                   /\ t[j + 1] = Ev("op", t[j].ret.cmd, 0, NoEffect)

(* Invocation 1 waits for its second operation while invocation 2 waits for
   its first. *)
C17_Witness ==
    /\ pc[1] = "await" /\ iters[1] = 2
    /\ pc[2] = "await" /\ iters[2] = 1
    /\ \E j \in 1 .. Len(trace[1]) : trace[1][j].ev = "step" /\ trace[1][j].ret.type = "Command" /\ j > FirstOp(1)


-----------------------------------------------------------------------------
(* The registration example: two callers register at once against one db,
   which may already hold users. A caller either walks the tree
   registerUserFlow returned (the second test) or hands it to runEffect
   (registerUser). *)
RegFns(r) ==
    [i \in 1 .. Len(RegSteps) |-> [k |-> "step", id |-> Len(RegSteps) * (r - 1) + i]]

RegOps == {FindOp(r) : r \in Runs} \cup {SaveOp(r) : r \in Runs}

InitReg ==
    /\ steps = RegSteps \o RegSteps
    /\ start \in [Runs -> RegInputs]
    /\ \E S \in SUBSET Emails : users = [m \in Emails |-> IF m \in S THEN SavedRecord(4 * m) ELSE Null]
    /\ world = [op \in RegOps |->
                  {[mode |-> "resolve", val |-> v] :
                       v \in {Null} \cup {SavedRecord(x) : x \in RegInputs}}]
    /\ effect = [r \in Runs |-> NoEffect]
    /\ pc = [r \in Runs |-> "init"]
    /\ settled = [r \in Runs |-> NoSettle]
    /\ result = [r \in Runs |-> NoEffect]
    /\ trace = [r \in Runs |-> <<>>]
    /\ inflight = [r \in Runs |-> {}]
    /\ iters = [r \in Runs |-> 0]
    /\ hist = [r \in Runs |-> <<>>]
    /\ heap = <<>>

(* src/unnamed/part_000:50-56: registerUserFlow(input). *)
RegisterUserFlow(r) ==
    /\ pc[r] = "init"
    /\ \E p \in {effectPipe(RegFns(r), start[r])} :
       /\ trace' = [trace EXCEPT ![r] = @ \o p.log]
       /\ IF p.val.type = "Throw"
          THEN /\ pc' = [pc EXCEPT ![r] = "threw"]
               /\ result' = [result EXCEPT ![r] = p.val]
               /\ UNCHANGED effect
          ELSE /\ pc' = [pc EXCEPT ![r] = "built"]
               /\ effect' = [effect EXCEPT ![r] = p.val]
               /\ UNCHANGED result
    /\ UNCHANGED <<heap, steps, start, world, users, settled, inflight, iters, hist>>

NextReg ==
    \E r \in Runs :
        RegisterUserFlow(r) \/ Walk(r) \/ RunEffect(r) \/ Settle(r) \/ Resume(r)

SpecReg == InitReg /\ [][NextReg]_vars

Invoked(r, op) == \E j \in 1 .. Len(trace[r]) : trace[r][j].ev = "op" /\ trace[r][j].id = op
Resolved(r, op, v) ==
    \E j \in 1 .. Len(trace[r]) : trace[r][j] = Ev("value", op, v, NoEffect)
Applied(r, ev, id, v) ==
    \E j \in 1 .. Len(trace[r]) :
        trace[r][j].ev = ev /\ trace[r][j].id = id /\ trace[r][j].arg = v
FindStep(r) == StepOfOp(FindOp(r))
SaveStep(r) == StepOfOp(SaveOp(r))

(* C11: in the registration pipeline an input whose email has no '@' gives
   Failure('Invalid email format.') and neither operation is invoked; a valid
   input gives a Command with the find operation, whose continuation applied
   to null gives a Command with the save operation; a run in which the find
   operation resolves to null ends in Success(saved record), and one in which
   it resolves to a user ends in Failure('Email already in use.') without
   invoking the save operation. *)
C11_Registration ==
    \A r \in Runs :
        LET x == start[r] IN
        /\ (NoAtSign(x) /\ pc[r] # "init") =>
               /\ pc[r] \in {"built", "done"}
               /\ pc[r] = "built" => effect[r] = Failure(InvalidEmail)
               /\ pc[r] = "done" => result[r] = Failure(InvalidEmail)
               /\ ~Invoked(r, FindOp(r)) /\ ~Invoked(r, SaveOp(r))
               /\ iters[r] = 0
        /\ (~NoAtSign(x) /\ ~ShortPassword(x)) =>
               /\ pc[r] = "built" =>
                      effect[r].type = "Command" /\ effect[r].cmd = FindOp(r)
               /\ (pc[r] = "walk" /\ Applied(r, "cont", FindStep(r), Null)
                                 /\ ~\E v \in OpResults : Applied(r, "cont", SaveStep(r), v)) =>
                      effect[r].type = "Command" /\ effect[r].cmd = SaveOp(r)
               /\ (pc[r] = "done" /\ Resolved(r, FindOp(r), Null)) =>
                      /\ result[r] = Success(SavedRecord(x))
                      /\ Invoked(r, SaveOp(r))
                      /\ users[EmailOf(x)] # Null
               /\ \A v \in {SavedRecord(y) : y \in RegInputs} :
                      Resolved(r, FindOp(r), v) =>
                          /\ ~Invoked(r, SaveOp(r))
                          /\ pc[r] = "done" => result[r] = Failure(EmailInUse)
               /\ pc[r] = "done" =>
                      \E v \in {Null} \cup {SavedRecord(y) : y \in RegInputs} :
                          Resolved(r, FindOp(r), v)

(* Run 1 registered a new email; run 2 found that email taken. *)
C11_Witness ==
    /\ pc[1] = "done" /\ result[1] = Success(SavedRecord(start[1]))
    /\ pc[2] = "done" /\ result[2] = Failure(EmailInUse)
    /\ Resolved(2, FindOp(2), SavedRecord(start[1]))

(* C19: of the concurrent registrations of one email at most one invokes the
   save operation and at most one ends in a Success; one that ends after
   another has succeeded ends in Failure('Email already in use.'). *)
C19_EmailUnique ==
    \A r, q \in Runs :
        (r # q /\ EmailOf(start[r]) = EmailOf(start[q])) =>
            /\ ~(Invoked(r, SaveOp(r)) /\ Invoked(q, SaveOp(q)))
            /\ ~(/\ pc[r] = "done" /\ result[r].type = "Success"
                 /\ pc[q] = "done" /\ result[q].type = "Success")


-----------------------------------------------------------------------------
(* The object-level view. An effect is an object on the heap, named by its
   address; a constructor call appends an object; `effect` and `result` hold
   addresses. The closure of src/index.js:12 captures the variable `effect`,
   so it holds the address of the Command it was made for and reads that
   object's `next` when it is called: [k |-> "chainNext", obj |-> a, fn |-> f].
   A call returns [heap, ret, err]: the heap after the call, the address
   returned, and the error thrown (NoErr when none). *)
MaxHeap == 5
NoErr == -1
NoAddr == 0

Alloc(h, e) == [heap |-> Append(h, e), ret |-> Len(h) + 1, err |-> NoErr]
Throws(h, err) == [heap |-> h, ret |-> NoAddr, err |-> err]
Made(h, e) == IF e.type = "Throw" THEN Throws(h, e.error) ELSE Alloc(h, e)

RECURSIVE hChain(_, _, _), hApply(_, _, _), hReduce(_, _)

(* A call fn(x) on heap h. *)
hApply(h, fn, x) ==
    CASE fn.k = "step" -> Made(h, StepFn(fn.id, x))
      [] fn.k = "cont" -> Made(h, ContFn(fn.id, x))
      [] fn.k = "cont2" -> Made(h, Cont2Fn(fn.id, x))
      [] fn.k = "chainNext" ->
            Only({IF c.err # NoErr THEN c ELSE hChain(c.heap, c.ret, fn.fn)
                  : c \in {hApply(h, h[fn.obj].next, x)}})

(* Mutant of hChain: the Command is extended in place and handed back. *)
hChainInPlace(h, a, fn) ==
    CASE h[a].type = "Success" -> hApply(h, fn, h[a].value)
      [] h[a].type = "Failure" -> [heap |-> h, ret |-> a, err |-> NoErr]
      [] h[a].type = "Command" ->
            [heap |-> [h EXCEPT ![a].next = fn], ret |-> a, err |-> NoErr]

(* src/index.js:5-15 on objects: a Success hands its value to fn, a Failure is
   returned as the object it is, a Command gives a new Command object. *)
hChain(h, a, fn) ==
    CASE h[a].type = "Success" -> hApply(h, fn, h[a].value)
      [] h[a].type = "Failure" -> [heap |-> h, ret |-> a, err |-> NoErr]
      [] h[a].type = "Command" ->
            Alloc(h, Command(h[a].cmd, [k |-> "chainNext", obj |-> a, fn |-> fn]))

hReduce(fns, acc) ==
    IF fns = <<>> \/ acc.err # NoErr THEN acc
    ELSE hReduce(Tail(fns), hChain(acc.heap, acc.ret, Head(fns)))

(* src/index.js:17-19 on objects. *)
hEffectPipe(h, fns, s) == hReduce(fns, Alloc(h, Success(s)))

InitHeap ==
    /\ steps \in SeqsUpTo(Behaviours, MaxSteps)
    /\ start \in [Runs -> StartValues]
    /\ start[2] = 0
    /\ world = [op \in OpIds |-> AllOutcomes(op)]
    /\ users = [m \in Emails |-> Null]
    /\ heap = <<>>
    /\ effect = [r \in Runs |-> NoAddr]
    /\ pc = [r \in Runs |-> IF r = 1 THEN "init" ELSE "unused"]
    /\ settled = [r \in Runs |-> NoSettle]
    /\ result = [r \in Runs |-> NoAddr]
    /\ trace = [r \in Runs |-> <<>>]
    /\ inflight = [r \in Runs |-> {}]
    /\ iters = [r \in Runs |-> 0]
    /\ hist = [r \in Runs |-> <<>>]

(* The caller evaluates effectPipe(...steps)(start). *)
HeapPipe(r) ==
    /\ pc[r] = "init"
    /\ \E c \in {hEffectPipe(heap, StepFns, start[r])} :
        /\ heap' = c.heap
        /\ IF c.err # NoErr
           THEN pc' = [pc EXCEPT ![r] = "threw"] /\ UNCHANGED effect
           ELSE pc' = [pc EXCEPT ![r] = "built"] /\ effect' = [effect EXCEPT ![r] = c.ret]
    /\ UNCHANGED <<steps, start, world, users, settled, result, trace, inflight, iters, hist>>

(* The caller chains one more step to the effect it holds, and keeps the
   result in place of it; the effect it was given stays on the heap. *)
HeapChain(r) ==
    /\ pc[r] = "built"
    /\ Len(heap) < MaxHeap
    /\ \E i \in 1 .. Len(steps) : \E c \in {hChain(heap, effect[r], [k |-> "step", id |-> i])} :
        /\ heap' = c.heap
        /\ IF c.err # NoErr
           THEN pc' = [pc EXCEPT ![r] = "threw"] /\ UNCHANGED effect
           ELSE pc' = [pc EXCEPT ![r] = "built"] /\ effect' = [effect EXCEPT ![r] = c.ret]
    /\ UNCHANGED <<steps, start, world, users, settled, result, trace, inflight, iters, hist>>

(* src/index.js:22-29 on objects, from the loop test to the next suspension:
   h is the heap and a the address the variable `effect` is given. The
   Failure of the catch is a new object. *)
HeapLoop(r, h, a) ==
    /\ effect' = [effect EXCEPT ![r] = a]
    /\ IF h[a].type = "Command"
       THEN \E o \in world[h[a].cmd] :
            /\ world' = [world EXCEPT ![h[a].cmd] = Same(h[a].cmd, o)]
            /\ CASE o.mode = "throw" ->
                       /\ heap' = Append(h, Failure(o.val))
                       /\ pc' = [pc EXCEPT ![r] = "done"]
                       /\ result' = [result EXCEPT ![r] = Len(h) + 1]
                       /\ settled' = [settled EXCEPT ![r] = NoSettle]
                 [] o.mode = "return" ->
                       /\ heap' = h
                       /\ pc' = [pc EXCEPT ![r] = "resume"]
                       /\ settled' = [settled EXCEPT ![r] = [ok |-> TRUE, val |-> o.val]]
                       /\ UNCHANGED result
                 [] OTHER ->
                       /\ heap' = h
                       /\ pc' = [pc EXCEPT ![r] = "await"]
                       /\ settled' = [settled EXCEPT ![r] = NoSettle]
                       /\ UNCHANGED result
       ELSE /\ heap' = h
            /\ pc' = [pc EXCEPT ![r] = "done"]
            /\ result' = [result EXCEPT ![r] = a]
            /\ settled' = [settled EXCEPT ![r] = NoSettle]
            /\ UNCHANGED world

(* src/index.js:21: runEffect(effect) is called with the object the caller holds. *)
HeapRun(r) ==
    /\ pc[r] = "built"
    /\ HeapLoop(r, heap, effect[r])
    /\ UNCHANGED <<steps, start, users, trace, inflight, iters, hist>>

(* The promise of the operation of the Command `effect` names settles. *)
HeapSettle(r) ==
    /\ pc[r] = "await"
    /\ \E o \in world[heap[effect[r]].cmd] :
        /\ o.mode \in {"resolve", "reject"}
        /\ settled' = [settled EXCEPT ![r] = [ok |-> o.mode = "resolve", val |-> o.val]]
    /\ pc' = [pc EXCEPT ![r] = "resume"]
    /\ UNCHANGED <<steps, start, world, users, heap, effect, result, trace, inflight, iters, hist>>

(* src/index.js:24-27 on objects: the await ends; effect.next is read from the
   object and called, or the catch builds a Failure. *)
HeapResume(r) ==
    /\ pc[r] = "resume"
    /\ IF ~settled[r].ok
       THEN /\ heap' = Append(heap, Failure(settled[r].val))
            /\ result' = [result EXCEPT ![r] = Len(heap) + 1]
            /\ pc' = [pc EXCEPT ![r] = "done"]
            /\ settled' = [settled EXCEPT ![r] = NoSettle]
            /\ UNCHANGED <<effect, world>>
       ELSE \E c \in {hApply(heap, heap[effect[r]].next, settled[r].val)} :
            IF c.err # NoErr
            THEN /\ heap' = Append(c.heap, Failure(c.err))
                 /\ result' = [result EXCEPT ![r] = Len(c.heap) + 1]
                 /\ pc' = [pc EXCEPT ![r] = "done"]
                 /\ settled' = [settled EXCEPT ![r] = NoSettle]
                 /\ UNCHANGED <<effect, world>>
            ELSE HeapLoop(r, c.heap, c.ret)
    /\ UNCHANGED <<steps, start, users, trace, inflight, iters, hist>>

NextHeap ==
    \E r \in Runs :
        HeapPipe(r) \/ HeapChain(r) \/ HeapRun(r) \/ HeapSettle(r) \/ HeapResume(r)

SpecHeap == InitHeap /\ [][NextHeap]_vars

(* C12: no call of chain, effectPipe or runEffect changes an effect object
   that exists: the heap only grows, and every object keeps the fields it was
   constructed with; a caller that chains a step to a Command it holds gets a
   new Command object with the same operation, the Command it gave unchanged. *)
C12_Immutable ==
    [][/\ Len(heap') >= Len(heap)
       /\ \A a \in 1 .. Len(heap) : heap'[a] = heap[a]
       /\ \A r \in Runs :
              (/\ pc[r] = "built" /\ pc'[r] = "built" /\ heap[effect[r]].type = "Command"
               /\ effect'[r] # effect[r]) =>
                  /\ effect'[r] = Len(heap) + 1
                  /\ Len(heap') = Len(heap) + 1
                  /\ heap'[effect'[r]].type = "Command"
                  /\ heap'[effect'[r]].cmd = heap[effect[r]].cmd
                  /\ heap'[effect'[r]].next.obj = effect[r]
                  /\ heap'[effect[r]] = heap[effect[r]]]_vars

(* A caller chained a step to the Command effectPipe returned, runEffect drove
   the new Command to its end through the closure, and the heap holds both. *)
C12_Witness ==
    /\ pc[1] = "done"
    /\ heap[result[1]].type = "Success"
    /\ \E a \in 1 .. Len(heap) :
           /\ heap[a].type = "Command" /\ heap[a].next.k = "chainNext"
           /\ heap[heap[a].next.obj].type = "Command"
           /\ heap[heap[a].next.obj].next.k = "chainNext"

=============================================================================
